---- MODULE Spec2Model ----
(***************************************************************************)
(* Model of the chat front end of MCP_RBAC: the ChatInterface component    *)
(* (handleSend and its SSE read loop, startNewChat, loadChatSession,       *)
(* deleteChat, the save effect) and the StorageService it persists to.     *)
(*                                                                         *)
(* Text is modelled as a sequence of symbols.  The wire text of a stream   *)
(* is modelled character by character where the code looks at characters   *)
(* (the "data: " marker, the "\n\n" delimiter, JSON whitespace); the body   *)
(* of a JSON object is one symbol between "{" and "}".                     *)
(***************************************************************************)
EXTENDS Integers, Sequences, FiniteSets, TLC

\* ---------------------------------------------------------------- bounds
MaxNow      == 1     \* the clock (Date.now(), in ms) runs over 0..MaxNow
MaxCalls    == 1     \* accepted handleSend invocations (Spec, SpecStream)
MaxTurns    == 2     \* accepted handleSend invocations (SpecTurns)
MaxEvents   == 2     \* frames the server writes on one stream
MaxSessions == 2     \* session ids generateSessionId hands out
MaxStoreMsgs == 2    \* messages of a list saved directly (SpecStore)
MaxReloads  == 1     \* page reloads (SpecReload)
MaxFrames   == 5     \* frames of a scripted stream (SpecFrames)

\* ------------------------------------------------------- string helpers
NL == "\n"

\* String.prototype.startsWith
StartsWith(s, p) == Len(s) >= Len(p) /\ SubSeq(s, 1, Len(p)) = p

\* String.prototype.slice(k) with 0 <= k
Slice(s, k) == SubSeq(s, k + 1, Len(s))

\* String.prototype.slice(0, k)
SliceTo(s, k) == SubSeq(s, 1, IF Len(s) < k THEN Len(s) ELSE k)

\* positions at which the separator "\n\n" starts in s
SepAt(s) == {i \in 1..(Len(s) - 1) : s[i] = NL /\ s[i + 1] = NL}

\* String.prototype.split('\n\n'): leftmost, non-overlapping separators
RECURSIVE Split(_)
Split(s) ==
    IF SepAt(s) = {} THEN <<s>>
    ELSE LET i == CHOOSE j \in SepAt(s) : \A k \in SepAt(s) : j <= k
         IN  <<SubSeq(s, 1, i - 1)>> \o Split(SubSeq(s, i + 2, Len(s)))

\* String.prototype.trim (and the white space JSON.parse skips)
WhiteSpace == {" ", NL}
RECURSIVE TrimLeft(_)
TrimLeft(s) == IF s # <<>> /\ Head(s) \in WhiteSpace THEN TrimLeft(Tail(s)) ELSE s
RECURSIVE TrimRight(_)
TrimRight(s) ==
    IF s # <<>> /\ s[Len(s)] \in WhiteSpace THEN TrimRight(SubSeq(s, 1, Len(s) - 1)) ELSE s
Trim(s) == TrimRight(TrimLeft(s))

\* ------------------------------------------------------- wire protocol
\* the marker handleSend looks for at the start of a line
DataPrefix == <<"d", "a", "t", "a", ":", " ">>

\* fragments, status text, citation lists and error text the server sends
FragA      == <<"Hello">>
FragB      == <<" world">>
StatusMsg  == <<"Searching...">>
SourcesS   == <<"a.pdf">>
SourcesT   == <<"b.pdf">>
ServerErr  == <<"backend failed">>

\* the objects the JSON bodies stand for
JsonObject(body) ==
    CASE body = "status"  -> [type |-> "status",  message |-> StatusMsg]
      [] body = "chunkA"  -> [type |-> "chunk",   content |-> FragA]
      [] body = "chunkB"  -> [type |-> "chunk",   content |-> FragB]
      [] body = "sources" -> [type |-> "sources", sources |-> SourcesS]
      [] body = "sourcesB" -> [type |-> "sources", sources |-> SourcesT]
      [] body = "done"    -> [type |-> "done"]
      [] body = "error"   -> [type |-> "error",   message |-> ServerErr]
      [] body = "ping"    -> [type |-> "ping"]

\* bodies of well-formed JSON objects; "ping" is valid JSON of unknown type
JsonBodies == {"status", "chunkA", "chunkB", "sources", "sourcesB", "done",
               "error", "ping"}

\* what the server can put in one frame; "<html>" is not JSON
EventBodies == JsonBodies \cup {"<html>"}

\* the payload text of a frame
Payload(body) == IF body \in JsonBodies THEN <<"{", body, "}">> ELSE <<body>>

\* one SSE frame as the server writes it: data: <json>\n\n
Frame(body) == DataPrefix \o Payload(body) \o <<NL, NL>>

\* a parser that hands text that is not JSON on as a chunk
JSONparseLenient(text) ==
    LET t == Trim(text)
    IN  IF Len(t) = 3 /\ t[1] = "{" /\ t[3] = "}" /\ t[2] \in JsonBodies
        THEN JsonObject(t[2])
        ELSE [type |-> "chunk", content |-> t]

\* JSON.parse: white space around the value is skipped, anything that is
\* not one complete object throws (type "SyntaxError" stands for the throw)
JSONparse(text) ==
    LET t == Trim(text)
    IN  IF Len(t) = 3 /\ t[1] = "{" /\ t[3] = "}" /\ t[2] \in JsonBodies
        THEN JsonObject(t[2])
        ELSE [type |-> "SyntaxError"]

\* ------------------------------------------------------- StorageService
\* an ISO text that drops the milliseconds
toISOStringSeconds(ms) == <<ms \div 1000, 0>>

\* Date.prototype.toISOString and new Date(iso): seconds and milliseconds
toISOString(ms) == <<ms \div 1000, ms % 1000>>
parseDate(iso)  == iso[1] * 1000 + iso[2]

TitleMax == 50
NewChatTitle == <<"New Chat">>

\* messages.find(m => m.role === 'user')
FirstUserIdx(msgs) ==
    LET U == {i \in 1..Len(msgs) : msgs[i].role = "user"}
    IN  IF U = {} THEN 0 ELSE CHOOSE i \in U : \A j \in U : i <= j

\* a title derivation that adds the ellipsis from 50 characters on
TitleOfFromFifty(msgs) ==
    LET i == FirstUserIdx(msgs)
    IN  IF i = 0 THEN NewChatTitle
        ELSE SliceTo(msgs[i].content, TitleMax)
             \o (IF Len(msgs[i].content) >= TitleMax THEN <<"...">> ELSE <<>>)

\* title derivation of saveChatHistory
TitleOf(msgs) ==
    LET i == FirstUserIdx(msgs)
    IN  IF i = 0 THEN NewChatTitle
        ELSE SliceTo(msgs[i].content, TitleMax)
             \o (IF Len(msgs[i].content) > TitleMax THEN <<"...">> ELSE <<>>)

\* m => ({...m, timestamp: m.timestamp.toISOString()})
StoredMsg(m) == [m EXCEPT !.timestamp = toISOString(m.timestamp)]
\* m => ({...m, timestamp: new Date(m.timestamp)})
LoadedMsg(m) == [m EXCEPT !.timestamp = parseDate(m.timestamp)]

\* index of the record with key sid in the history object, 0 if absent
\* (the history object is a sequence: JS objects keep key insertion order)
\* a lookup that finds every key at the first position
KeyIdxFirst(hist, sid) == IF hist = <<>> THEN 0 ELSE 1

KeyIdx(hist, sid) ==
    LET K == {i \in 1..Len(hist) : hist[i].id = sid}
    IN  IF K = {} THEN 0 ELSE CHOOSE i \in K : TRUE

\* delete allHistory[sessionId]
\* a delete that also drops the keys inserted after sid
DeleteKeyAndAfter(hist, sid) ==
    LET K == {i \in 1..Len(hist) : hist[i].id = sid}
    IN  IF K = {} THEN hist
        ELSE SubSeq(hist, 1, (CHOOSE i \in K : TRUE) - 1)

DeleteKey(hist, sid) ==
    LET keep == {i \in 1..Len(hist) : hist[i].id # sid}
        F[i \in 0..Len(hist)] ==
            IF i = 0 THEN <<>>
            ELSE IF i \in keep THEN Append(F[i - 1], hist[i]) ELSE F[i - 1]
    IN  F[Len(hist)]

\* a saveChatHistory without the branch for an empty list
saveChatHistoryKeepsEmpty(hist, sid, msgs, t) ==
    LET rec == [id          |-> sid,
                title       |-> TitleOf(msgs),
                timestamp   |-> toISOString(t),
                messages    |-> [i \in 1..Len(msgs) |-> StoredMsg(msgs[i])],
                lastMessage |-> IF msgs = <<>> THEN <<>> ELSE msgs[Len(msgs)].content]
        k == KeyIdx(hist, sid)
    IN  IF k = 0 THEN Append(hist, rec) ELSE [hist EXCEPT ![k] = rec]

\* StorageService.saveChatHistory at clock value t
saveChatHistory(hist, sid, msgs, t) ==
    IF Len(msgs) = 0 THEN DeleteKey(hist, sid)
    ELSE LET rec == [id          |-> sid,
                     title       |-> TitleOf(msgs),
                     timestamp   |-> toISOString(t),
                     messages    |-> [i \in 1..Len(msgs) |-> StoredMsg(msgs[i])],
                     lastMessage |-> msgs[Len(msgs)].content]
             k == KeyIdx(hist, sid)
         IN  IF k = 0 THEN Append(hist, rec) ELSE [hist EXCEPT ![k] = rec]

\* a deleteSession that removes the last record when the key is missing
deleteSessionSplice(hist, sid) ==
    IF KeyIdx(hist, sid) = 0 /\ hist # <<>>
    THEN SubSeq(hist, 1, Len(hist) - 1)
    ELSE DeleteKey(hist, sid)

\* StorageService.deleteSession
deleteSession(hist, sid) == DeleteKey(hist, sid)

\* StorageService.loadSession; <<>> of length 0 is null, <<msgs>> a result
\* a loadSession that returns an empty list for a missing key
loadSessionEmptyForMissing(hist, sid) ==
    LET k == KeyIdx(hist, sid)
    IN  IF k = 0 THEN <<(<<>>)>>
        ELSE <<[i \in 1..Len(hist[k].messages) |-> LoadedMsg(hist[k].messages[i])]>>

loadSession(hist, sid) ==
    LET k == KeyIdx(hist, sid)
    IN  IF k = 0 THEN <<>>
        ELSE <<[i \in 1..Len(hist[k].messages) |-> LoadedMsg(hist[k].messages[i])]>>

MsPerMin  == 60000
MsPerHour == 3600000
MsPerDay  == 86400000

\* a formatTimestamp whose hours run up to and including 24
formatTimestampLate(iso, t) ==
    LET diffMs    == t - parseDate(iso)
        diffMins  == diffMs \div MsPerMin
        diffHours == diffMs \div MsPerHour
        diffDays  == diffMs \div MsPerDay
    IN  IF diffMins < 1 THEN [n |-> 0, text |-> "Just now"]
        ELSE IF diffMins < 60
             THEN [n |-> diffMins, text |-> IF diffMins > 1 THEN "mins ago" ELSE "min ago"]
        ELSE IF diffHours <= 24
             THEN [n |-> diffHours, text |-> IF diffHours > 1 THEN "hours ago" ELSE "hour ago"]
        ELSE IF diffDays = 1 THEN [n |-> 1, text |-> "Yesterday"]
        ELSE IF diffDays < 7 THEN [n |-> diffDays, text |-> "days ago"]
        ELSE [n |-> parseDate(iso) \div MsPerDay, text |-> "date"]

\* StorageService.formatTimestamp; a label is its number and its wording
formatTimestamp(iso, t) ==
    LET diffMs    == t - parseDate(iso)
        diffMins  == diffMs \div MsPerMin
        diffHours == diffMs \div MsPerHour
        diffDays  == diffMs \div MsPerDay
    IN  IF diffMins < 1 THEN [n |-> 0, text |-> "Just now"]
        ELSE IF diffMins < 60
             THEN [n |-> diffMins, text |-> IF diffMins > 1 THEN "mins ago" ELSE "min ago"]
        ELSE IF diffHours < 24
             THEN [n |-> diffHours, text |-> IF diffHours > 1 THEN "hours ago" ELSE "hour ago"]
        ELSE IF diffDays = 1 THEN [n |-> 1, text |-> "Yesterday"]
        ELSE IF diffDays < 7 THEN [n |-> diffDays, text |-> "days ago"]
        ELSE [n |-> parseDate(iso) \div MsPerDay, text |-> "date"]

\* the comparator of getChatHistoryList: new Date(label).getTime() is NaN
\* for every relative label, and a NaN comparison result counts as 0
LabelTime(l) == IF l.text = "date" THEN <<l.n * MsPerDay>> ELSE <<>>
CompareEntries(a, b) ==
    IF LabelTime(a.timestamp) = <<>> \/ LabelTime(b.timestamp) = <<>> THEN 0
    ELSE LabelTime(b.timestamp)[1] - LabelTime(a.timestamp)[1]

\* Array.prototype.sort: stable, here as insertion of x into sorted s
RECURSIVE InsertSorted(_, _)
InsertSorted(s, x) ==
    IF s = <<>> THEN <<x>>
    ELSE IF CompareEntries(s[Len(s)], x) <= 0 THEN Append(s, x)
    ELSE Append(InsertSorted(SubSeq(s, 1, Len(s) - 1), x), s[Len(s)])
RECURSIVE SortEntries(_)
SortEntries(s) ==
    IF s = <<>> THEN <<>>
    ELSE InsertSorted(SortEntries(SubSeq(s, 1, Len(s) - 1)), s[Len(s)])

\* StorageService.getChatHistoryList at clock value t
getChatHistoryList(hist, t) ==
    SortEntries([i \in 1..Len(hist) |->
        [id          |-> hist[i].id,
         title       |-> hist[i].title,
         timestamp   |-> formatTimestamp(hist[i].timestamp, t),
         lastMessage |-> hist[i].lastMessage]])

\* ------------------------------------------------------- ChatInterface
VARIABLES
    messages,        \* useState<Message[]>
    isThinking,      \* useState(false)
    thinkingStatus,  \* useState<string>('')
    sessionId,       \* useState<string>('')
    chatHistory,     \* useState<ChatHistory[]>
    error,           \* useState<string | null>; <<>> is null
    lsHistory,       \* localStorage['rag_chatbot_history'], keys in insertion order
    lsSession,       \* localStorage['rag_chatbot_session']
    now,             \* the clock read by Date.now() and new Date()
    nextSession,     \* the next id generateSessionId returns
    calls,           \* the accepted handleSend invocations, in call order
    deleted,         \* history: the deleteChat calls made, [id, active]
    op,              \* history: the last direct call of the StorageService
    reloads,         \* history: how often the page was loaded again
    mounted,         \* the component tree is rendered; FALSE once React
                     \* removed it for an error thrown in an effect, or
                     \* ProtectedRoute after a logout
    auth             \* AuthProvider: localStorage['auth_token'] and
                     \* ['auth_user'], the Authorization header of apiClient
                     \* and the AuthState; 0 is null or absent

vars == <<messages, isThinking, thinkingStatus, sessionId, chatHistory, error,
          lsHistory, lsSession, now, nextSession, calls, deleted, op, reloads, mounted, auth>>

\* the users that can sign in on this browser; the token of user u is u
MaxUsers == 2
Users == 1..MaxUsers

\* what login(token, user) leaves, and what logout() leaves
LoggedIn(u) ==
    [lsToken |-> u, lsUser |-> u, header |-> u,
     user |-> u, token |-> u, isAuthenticated |-> TRUE]
LoggedOut ==
    [lsToken |-> 0, lsUser |-> 0, header |-> 0,
     user |-> 0, token |-> 0, isAuthenticated |-> FALSE]

\* no direct call of the StorageService was made
NoOp == [name |-> "none", id |-> 0, msgs |-> <<>>, had |-> FALSE]

\* what the user can type; the second input is blank
Inputs == {<<"q">>, <<" ">>}

\* error texts of a failed fetch, a non-OK response and a missing body
FetchErrors == {<<"Failed to fetch">>, <<"HTTP error! status: 500">>,
                <<"No reader available">>}
\* error text of a rejected reader.read()
ReadError == <<"network error">>

Calls == 1..Len(calls)

\* the response bodies a server can produce: up to MaxEvents frames
Responses(bodies) == UNION {[1..m -> bodies] : m \in 0..MaxEvents}

\* the text of a response
RECURSIVE WireOf(_)
WireOf(resp) == IF resp = <<>> THEN <<>> ELSE Frame(Head(resp)) \o WireOf(Tail(resp))

\* a save effect that never creates a record
SaveEffectNoCreate(hist, sid, msgs, t) ==
    IF KeyIdx(hist, sid) = 0 THEN hist ELSE saveChatHistory(hist, sid, msgs, t)

\* the save effect: saveChatHistory(sessionId, messages); loadChatHistory()
SaveEffect(hist, sid, msgs, t) == saveChatHistory(hist, sid, msgs, t)

\* prev => prev.map(msg => msg.id === id ? {...msg, content} : msg)
SetContent(msgs, id, content) ==
    [i \in 1..Len(msgs) |->
        IF msgs[i].id = id THEN [msgs[i] EXCEPT !.content = content] ELSE msgs[i]]

\* a sources update that builds the message anew and loses its content
SetSourcesLosesContent(msgs, id, src) ==
    [i \in 1..Len(msgs) |->
        IF msgs[i].id = id
        THEN [msgs[i] EXCEPT !.sources = <<src>>, !.content = <<>>]
        ELSE msgs[i]]

\* prev => prev.map(msg => msg.id === id ? {...msg, sources} : msg)
SetSources(msgs, id, src) ==
    [i \in 1..Len(msgs) |->
        IF msgs[i].id = id THEN [msgs[i] EXCEPT !.sources = <<src>>] ELSE msgs[i]]

\* a Message object; sources and confidence are <<>> when the key is absent
NewMessage(id, role, content, t) ==
    [id |-> id, role |-> role, content |-> content, timestamp |-> t,
     sources |-> <<>>, confidence |-> <<>>]

\* the body of the for loop for one decoded object; c holds the locals of
\* handleSend, the React state the loop writes, what the inner catch caught
\* (c.caught) and whether a done event was handled (c.doneSeen)
OnData(c, data, id, t) ==
    IF data.type = "SyntaxError" THEN
        [c EXCEPT !.caught = <<"SyntaxError">>]
    ELSE IF data.type = "status" THEN
        [c EXCEPT !.thinkingStatus = data.message]
    ELSE IF data.type = "chunk" THEN
        LET acc == c.accumulatedContent \o data.content
        IN  IF ~c.messageAdded
            THEN [c EXCEPT !.accumulatedContent = acc,
                           !.messages = Append(c.messages,
                                               NewMessage(id, "assistant", acc, t)),
                           !.messageAdded = TRUE,
                           !.rendered = TRUE]
            ELSE [c EXCEPT !.accumulatedContent = acc,
                           !.messages = SetContent(c.messages, id, acc),
                           !.rendered = TRUE]
    ELSE IF data.type = "sources" THEN
        IF c.messageAdded
        THEN [c EXCEPT !.sources = data.sources,
                       !.messages = SetSources(c.messages, id, data.sources),
                       !.rendered = TRUE]
        ELSE [c EXCEPT !.sources = data.sources]
    ELSE IF data.type = "done" THEN
        [c EXCEPT !.isThinking = FALSE, !.thinkingStatus = <<>>, !.doneSeen = TRUE]
    ELSE IF data.type = "error" THEN
        \* throw new Error(data.message), caught by the catch of the same try
        [c EXCEPT !.caught = data.message]
    ELSE c

\* for (const line of lines) { if (line.startsWith('data: ')) ... }
OnLine(c, line, id, t) ==
    IF StartsWith(line, DataPrefix)
    THEN OnData(c, JSONparse(Slice(line, Len(DataPrefix))), id, t)
    ELSE c

RECURSIVE OnLines(_, _, _, _)
OnLines(c, lines, id, t) ==
    IF lines = <<>> THEN c
    ELSE OnLines(OnLine(c, Head(lines), id, t), Tail(lines), id, t)

\* one turn of the while loop on the text of one read
OnRead(c, text, id, t) == OnLines(c, Split(text), id, t)

\* a catch block that appends the error message whatever was received
OnCatchAppends(msgs, added, id, errText, t) ==
    Append(msgs, NewMessage(id, "assistant",
                 <<"Error: ">> \o errText \o <<". Please try again.">>, t))

\* the outer catch block's update of the message list
OnCatch(msgs, added, id, errText, t) ==
    IF ~added
    THEN Append(msgs, NewMessage(id, "assistant",
                 <<"Error: ">> \o errText \o <<". Please try again.">>, t))
    ELSE [i \in 1..Len(msgs) |->
            IF msgs[i].id = id
            THEN [msgs[i] EXCEPT !.content = @ \o <<"\n\nError: ">> \o errText]
            ELSE msgs[i]]

\* StorageService.generateSessionId: session_<Date.now()>_<random>; the
\* time-and-random suffix is modelled as a number never handed out before
generateSessionId == nextSession

Init ==
    \* the state after the mount effects ran on an empty localStorage
    /\ messages = <<>>
    /\ isThinking = FALSE
    /\ thinkingStatus = <<>>
    /\ sessionId = 1
    /\ chatHistory = <<>>
    /\ error = <<>>
    /\ lsHistory = <<>>
    /\ lsSession = 1
    /\ now = 0
    /\ nextSession = 2
    /\ calls = <<>>
    /\ deleted = {}
    /\ op = NoOp
    /\ reloads = 0
    /\ mounted = TRUE
    /\ auth = LoggedIn(1)

Tick ==
    /\ now < MaxNow
    /\ now' = now + 1
    /\ UNCHANGED <<messages, isThinking, thinkingStatus, sessionId, chatHistory,
                   error, lsHistory, lsSession, nextSession, calls, deleted, op, reloads, mounted, auth>>

\* handleSend whose save effect does not call loadChatHistory
HandleSendNoRefresh(input) ==
    IF Trim(input) = <<>> \/ isThinking
    THEN UNCHANGED vars
    ELSE /\ messages' = Append(messages, NewMessage(now, "user", input, now))
         /\ isThinking' = TRUE
         /\ thinkingStatus' = <<"Initializing...">>
         /\ error' = <<>>
         /\ calls' = Append(calls,
                [pc |-> "fetch",
                 assistantMessageId |-> now + 1,
                 messageAdded |-> FALSE,
                 accumulatedContent |-> <<>>,
                 sources |-> <<>>,
                 wire |-> <<>>,        \* response text not yet read
                 caught |-> <<>>,      \* what the inner catch last caught
                 doneSeen |-> FALSE,   \* a done event was handled
                 written |-> <<>>,     \* history: bodies of the frames sent
                 openedFor |-> sessionId,  \* history: sessionId at the call
                 exit |-> "none",      \* history: how the call returned
                 produced |-> 0])      \* history: messages the call appended
         /\ lsHistory' = SaveEffect(lsHistory, sessionId, messages', now)
         /\ UNCHANGED <<sessionId, chatHistory, lsSession, now, nextSession, deleted, op, reloads, mounted, auth>>

\* handleSend up to the await of fetch
HandleSend(input) ==
    IF Trim(input) = <<>> \/ isThinking
    THEN UNCHANGED vars
    ELSE /\ messages' = Append(messages, NewMessage(now, "user", input, now))
         /\ isThinking' = TRUE
         /\ thinkingStatus' = <<"Initializing...">>
         /\ error' = <<>>
         /\ calls' = Append(calls,
                [pc |-> "fetch",
                 assistantMessageId |-> now + 1,
                 messageAdded |-> FALSE,
                 accumulatedContent |-> <<>>,
                 sources |-> <<>>,
                 wire |-> <<>>,        \* response text not yet read
                 caught |-> <<>>,      \* what the inner catch last caught
                 doneSeen |-> FALSE,   \* a done event was handled
                 written |-> <<>>,     \* history: bodies of the frames sent
                 openedFor |-> sessionId,  \* history: sessionId at the call
                 exit |-> "none",      \* history: how the call returned
                 produced |-> 0])      \* history: messages the call appended
         /\ lsHistory' = SaveEffect(lsHistory, sessionId, messages', now)
         /\ chatHistory' = getChatHistoryList(lsHistory', now)
         /\ UNCHANGED <<sessionId, lsSession, now, nextSession, deleted, op, reloads, mounted, auth>>

\* the outer catch block without the finally block
CatchKeepsThinking(k, errText, from) ==
    /\ error' = errText
    /\ messages' = OnCatch(messages, calls[k].messageAdded,
                           calls[k].assistantMessageId, errText, now)
    /\ calls' = [calls EXCEPT ![k].pc = "returned", ![k].exit = from,
                              ![k].wire = <<>>,
                              ![k].produced = @ + Len(messages') - Len(messages)]
    /\ lsHistory' = SaveEffect(lsHistory, sessionId, messages', now)
    /\ chatHistory' = getChatHistoryList(lsHistory', now)
    /\ UNCHANGED <<isThinking, thinkingStatus, sessionId, lsSession, now,
                   nextSession, deleted, op, reloads, mounted, auth>>

\* the outer catch and finally blocks of call k with error text errText,
\* entered from the await named by from ("fetch" or "read")
Catch(k, errText, from) ==
    /\ error' = errText
    /\ messages' = OnCatch(messages, calls[k].messageAdded,
                           calls[k].assistantMessageId, errText, now)
    /\ isThinking' = FALSE
    /\ thinkingStatus' = <<>>
    /\ calls' = [calls EXCEPT ![k].pc = "returned", ![k].exit = from,
                              ![k].wire = <<>>,
                              ![k].produced = @ + Len(messages') - Len(messages)]
    /\ lsHistory' = SaveEffect(lsHistory, sessionId, messages', now)
    /\ chatHistory' = getChatHistoryList(lsHistory', now)
    /\ UNCHANGED <<sessionId, lsSession, now, nextSession, deleted, op, reloads, mounted, auth>>

\* fetch rejects, response.ok is false, or response.body has no reader
FetchFail(k, errText) ==
    /\ calls[k].pc = "fetch"
    /\ Catch(k, errText, "fetch")

\* fetch resolves with an OK response whose body will carry resp
FetchOk(k, resp) ==
    /\ calls[k].pc = "fetch"
    /\ calls' = [calls EXCEPT ![k].pc = "reading",
                              ![k].wire = WireOf(resp),
                              ![k].written = resp]
    /\ UNCHANGED <<messages, isThinking, thinkingStatus, sessionId, chatHistory,
                   error, lsHistory, lsSession, now, nextSession, deleted, op, reloads, mounted, auth>>

\* reader.read() resolves with the next n symbols; one turn of the loop
ReaderRead(k, n) ==
    /\ calls[k].pc = "reading"
    /\ n \in 1..Len(calls[k].wire)
    /\ LET c0 == [accumulatedContent |-> calls[k].accumulatedContent,
                  messageAdded |-> calls[k].messageAdded,
                  sources |-> calls[k].sources,
                  caught |-> calls[k].caught,
                  doneSeen |-> calls[k].doneSeen,
                  messages |-> messages,
                  thinkingStatus |-> thinkingStatus,
                  isThinking |-> isThinking,
                  rendered |-> FALSE]
           c == OnRead(c0, SubSeq(calls[k].wire, 1, n),
                       calls[k].assistantMessageId, now)
       IN  /\ messages' = c.messages
           /\ isThinking' = c.isThinking
           /\ thinkingStatus' = c.thinkingStatus
           /\ calls' = [calls EXCEPT
                  ![k].accumulatedContent = c.accumulatedContent,
                  ![k].messageAdded = c.messageAdded,
                  ![k].sources = c.sources,
                  ![k].caught = c.caught,
                  ![k].doneSeen = c.doneSeen,
                  ![k].produced = @ + Len(c.messages) - Len(messages),
                  ![k].wire = Slice(@, n)]
           /\ lsHistory' = IF c.rendered
                           THEN SaveEffect(lsHistory, sessionId, c.messages, now)
                           ELSE lsHistory
           /\ chatHistory' = IF c.rendered
                             THEN getChatHistoryList(lsHistory', now)
                             ELSE chatHistory
    /\ UNCHANGED <<sessionId, error, lsSession, now, nextSession, deleted, op, reloads, mounted, auth>>

\* a read whose state updates are rendered and whose save effect throws:
\* localStorage.setItem fails (the quota is exceeded), nothing is written,
\* and React, finding no error boundary, removes the component tree; what
\* handleSend does afterwards updates no state
ReaderReadStoreFull(k, n) ==
    /\ calls[k].pc = "reading"
    /\ n \in 1..Len(calls[k].wire)
    /\ LET c0 == [accumulatedContent |-> calls[k].accumulatedContent,
                  messageAdded |-> calls[k].messageAdded,
                  sources |-> calls[k].sources,
                  caught |-> calls[k].caught,
                  doneSeen |-> calls[k].doneSeen,
                  messages |-> messages,
                  thinkingStatus |-> thinkingStatus,
                  isThinking |-> isThinking,
                  rendered |-> FALSE]
           c == OnRead(c0, SubSeq(calls[k].wire, 1, n),
                       calls[k].assistantMessageId, now)
       IN  /\ c.rendered
           /\ messages' = c.messages
           /\ isThinking' = c.isThinking
           /\ thinkingStatus' = c.thinkingStatus
           /\ calls' = [calls EXCEPT
                  ![k].accumulatedContent = c.accumulatedContent,
                  ![k].messageAdded = c.messageAdded,
                  ![k].sources = c.sources,
                  ![k].caught = c.caught,
                  ![k].doneSeen = c.doneSeen,
                  ![k].produced = @ + Len(c.messages) - Len(messages),
                  ![k].wire = Slice(@, n),
                  ![k].pc = "detached",
                  ![k].exit = "quota"]
    /\ mounted' = FALSE
    /\ UNCHANGED <<sessionId, chatHistory, error, lsHistory, lsSession, now,
                   nextSession, deleted, op, reloads, auth>>

\* reader.read() resolves with done: break, then the finally block
ReaderDone(k) ==
    /\ calls[k].pc = "reading"
    /\ calls[k].wire = <<>>
    /\ isThinking' = FALSE
    /\ thinkingStatus' = <<>>
    /\ calls' = [calls EXCEPT ![k].pc = "returned", ![k].exit = "eof"]
    /\ UNCHANGED <<messages, sessionId, chatHistory, error, lsHistory, lsSession,
                   now, nextSession, deleted, op, reloads, mounted, auth>>

\* reader.read() rejects: the outer catch, then the finally block
ReaderFail(k) ==
    /\ calls[k].pc = "reading"
    /\ Catch(k, ReadError, "read")

\* startNewChat followed by the save effect
StartNewChat ==
    /\ lsSession' = generateSessionId
    /\ sessionId' = generateSessionId
    /\ nextSession' = nextSession + 1
    /\ messages' = <<>>
    /\ error' = <<>>
    /\ lsHistory' = SaveEffect(lsHistory, sessionId', messages', now)
    /\ chatHistory' = getChatHistoryList(lsHistory', now)
    /\ UNCHANGED <<isThinking, thinkingStatus, now, calls, deleted, op, reloads, mounted, auth>>

\* the ids the sidebar offers
ListedIds == {chatHistory[i].id : i \in 1..Len(chatHistory)}

\* loadChatSession without the write of the session pointer
LoadChatSessionNoPointer(h) ==
    LET savedMessages == loadSession(lsHistory, h)
    IN  IF savedMessages # <<>>
        THEN /\ messages' = savedMessages[1]
             /\ sessionId' = h
             /\ lsHistory' = SaveEffect(lsHistory, h, messages', now)
             /\ chatHistory' = getChatHistoryList(lsHistory', now)
             /\ UNCHANGED <<isThinking, thinkingStatus, error, lsSession, now,
                            nextSession, calls, deleted, reloads, mounted, auth>>
        ELSE UNCHANGED <<messages, isThinking, thinkingStatus, sessionId,
                         chatHistory, error, lsHistory, lsSession, now,
                         nextSession, calls, deleted, reloads, mounted, auth>>

\* loadChatSession followed by the save effect; the history variable op is
\* left to the caller
LoadChatSession(h) ==
    LET savedMessages == loadSession(lsHistory, h)
    IN  IF savedMessages # <<>>
        THEN /\ messages' = savedMessages[1]
             /\ sessionId' = h
             /\ lsSession' = h
             /\ lsHistory' = SaveEffect(lsHistory, h, messages', now)
             /\ chatHistory' = getChatHistoryList(lsHistory', now)
             /\ UNCHANGED <<isThinking, thinkingStatus, error, now,
                            nextSession, calls, deleted, reloads, mounted, auth>>
        ELSE UNCHANGED <<messages, isThinking, thinkingStatus, sessionId,
                         chatHistory, error, lsHistory, lsSession, now,
                         nextSession, calls, deleted, reloads, mounted, auth>>

\* deleteChat without the start of a new chat for the active session
DeleteChatKeepsSession(h) ==
    /\ deleted' = deleted \cup {[id |-> h, active |-> (h = sessionId)]}
    /\ lsHistory' = deleteSession(lsHistory, h)
    /\ chatHistory' = getChatHistoryList(lsHistory', now)
    /\ UNCHANGED <<messages, isThinking, thinkingStatus, sessionId,
                   error, lsSession, now, nextSession, calls, op, reloads, mounted, auth>>

\* deleteChat followed, when it started a new chat, by the save effect
DeleteChat(h) ==
    /\ deleted' = deleted \cup {[id |-> h, active |-> (h = sessionId)]}
    /\ IF h = sessionId
       THEN /\ lsSession' = generateSessionId
            /\ sessionId' = generateSessionId
            /\ nextSession' = nextSession + 1
            /\ messages' = <<>>
            /\ error' = <<>>
            /\ lsHistory' = SaveEffect(deleteSession(lsHistory, h),
                                       sessionId', messages', now)
            /\ chatHistory' = getChatHistoryList(lsHistory', now)
            /\ UNCHANGED <<isThinking, thinkingStatus, now, calls, op, reloads, mounted, auth>>
       ELSE /\ lsHistory' = deleteSession(lsHistory, h)
            /\ chatHistory' = getChatHistoryList(lsHistory', now)
            /\ UNCHANGED <<messages, isThinking, thinkingStatus, sessionId,
                           error, lsSession, now, nextSession, calls, op, reloads, mounted, auth>>

\* the page is loaded again: the component state is rebuilt by the mount
\* effect from localStorage, handleSend calls still awaiting are gone with
\* the old page, and the save effect runs on the rebuilt state
Reload ==
    LET currentSession == lsSession
        savedMessages == loadSession(lsHistory, currentSession)
    IN  /\ reloads' = reloads + 1
        /\ sessionId' = currentSession
        /\ messages' = IF savedMessages # <<>> THEN savedMessages[1] ELSE <<>>
        /\ isThinking' = FALSE
        /\ thinkingStatus' = <<>>
        /\ error' = <<>>
        /\ calls' = [k \in Calls |->
                        IF calls[k].pc = "returned" THEN calls[k]
                        ELSE [calls[k] EXCEPT !.pc = "gone", !.exit = "reload",
                                              !.wire = <<>>]]
        /\ lsHistory' = SaveEffect(lsHistory, sessionId', messages', now)
        /\ chatHistory' = getChatHistoryList(lsHistory', now)
        /\ mounted' = TRUE
        /\ UNCHANGED <<lsSession, now, nextSession, deleted, op, auth>>

\* a logout that also clears the chat keys of localStorage
LogoutClearsAll ==
    /\ auth.isAuthenticated
    /\ mounted
    /\ auth' = LoggedOut
    /\ mounted' = FALSE
    /\ lsHistory' = <<>>
    /\ calls' = [k \in Calls |->
                    IF calls[k].pc = "returned" THEN calls[k]
                    ELSE [calls[k] EXCEPT !.pc = "detached", !.exit = "logout",
                                          !.wire = <<>>]]
    /\ UNCHANGED <<messages, isThinking, thinkingStatus, sessionId, chatHistory,
                   error, lsSession, now, nextSession, deleted, op, reloads>>

\* the Logout button of ChatInterface: AuthProvider.logout, after which
\* ProtectedRoute renders the redirect to /login in place of ChatInterface;
\* handleSend calls still awaiting update no state from then on
Logout ==
    /\ auth.isAuthenticated
    /\ mounted
    /\ auth' = LoggedOut
    /\ mounted' = FALSE
    /\ calls' = [k \in Calls |->
                    IF calls[k].pc = "returned" THEN calls[k]
                    ELSE [calls[k] EXCEPT !.pc = "detached", !.exit = "logout",
                                          !.wire = <<>>]]
    /\ UNCHANGED <<messages, isThinking, thinkingStatus, sessionId, chatHistory,
                   error, lsHistory, lsSession, now, nextSession, deleted, op, reloads>>

\* the login page: AuthProvider.login(token, user) and navigate('/'), which
\* mounts ChatInterface: its mount effect rebuilds the state from
\* localStorage and the save effect runs on the rebuilt state
Login(u) ==
    LET currentSession == lsSession
        savedMessages == loadSession(lsHistory, currentSession)
    IN  /\ ~auth.isAuthenticated
        /\ auth' = LoggedIn(u)
        /\ sessionId' = currentSession
        /\ messages' = IF savedMessages # <<>> THEN savedMessages[1] ELSE <<>>
        /\ isThinking' = FALSE
        /\ thinkingStatus' = <<>>
        /\ error' = <<>>
        /\ lsHistory' = SaveEffect(lsHistory, sessionId', messages', now)
        /\ chatHistory' = getChatHistoryList(lsHistory', now)
        /\ mounted' = TRUE
        /\ UNCHANGED <<lsSession, now, nextSession, calls, deleted, op, reloads>>

\* positions of the wire text at which a frame ends
FrameEnds(w) == {i \in 2..Len(w) : w[i - 1] = NL /\ w[i] = NL}

\* ---------------------------------------------------------- environment
\* users, servers and the network, within the bounds
Submit(cap) == Len(calls) < cap /\ \E input \in Inputs : HandleSend(input)
FetchFails == \E k \in Calls, e \in FetchErrors : FetchFail(k, e)
FetchOks(bodies) == \E k \in Calls, resp \in Responses(bodies) : FetchOk(k, resp)
ReadAny == \E k \in Calls : \E n \in 1..Len(calls[k].wire) : ReaderRead(k, n)
ReadFrames == \E k \in Calls : \E n \in FrameEnds(calls[k].wire) : ReaderRead(k, n)
ReadEnds == \E k \in Calls : ReaderDone(k)
ReadFails == \E k \in Calls : ReaderFail(k)
NewChat == nextSession <= MaxSessions /\ StartNewChat
OpenChat == \E h \in ListedIds : LoadChatSession(h) /\ UNCHANGED op
RemoveChat ==
    \E h \in ListedIds : (h = sessionId => nextSession <= MaxSessions) /\ DeleteChat(h)

\* the frames of the session and turn scenarios
SessionBodies == {"chunkA", "sources", "done", "error"}
TurnBodies == {"chunkA", "done"}

\* Spec: one conversation turn while the user moves between sessions; every
\* read delivers whole frames
Next ==
    \/ Tick
    \/ Submit(MaxCalls)
    \/ FetchFails
    \/ FetchOks(SessionBodies)
    \/ ReadFrames
    \/ ReadEnds
    \/ ReadFails
    \/ NewChat
    \/ OpenChat
    \/ RemoveChat

Spec == Init /\ [][Next]_vars

\* SpecStream: one turn in one session; the network splits the response
\* text into reads at any position, and the server may send any frame
NextStream ==
    \/ Tick
    \/ Submit(MaxCalls)
    \/ FetchFails
    \/ FetchOks(EventBodies)
    \/ ReadAny
    \/ ReadEnds
    \/ ReadFails

SpecStream == Init /\ [][NextStream]_vars

\* SpecTurns: successive submits in one session; whole frames per read
NextTurns ==
    \/ Tick
    \/ Submit(MaxTurns)
    \/ FetchFails
    \/ FetchOks(TurnBodies)
    \/ ReadFrames
    \/ ReadEnds
    \/ ReadFails

SpecTurns == Init /\ [][NextTurns]_vars

\* SpecLive: turns whose transport eventually closes or fails: a pending
\* fetch is settled, and an open reader reports its end or an error unless
\* the fetch was refused
LiveBodies == {"status", "chunkA", "done", "error"}

Closes ==
    \/ FetchFails
    \/ ReadEnds
    \/ ReadFails

NextLive ==
    \/ Tick
    \/ Submit(MaxCalls)
    \/ FetchOks(LiveBodies)
    \/ ReadFrames
    \/ Closes

SpecLive == Init /\ [][NextLive]_vars /\ WF_vars(Closes)

\* SpecReload: one turn while the user moves between sessions and loads the
\* page again
Reboot == reloads < MaxReloads /\ Reload

NextReload ==
    \/ Tick
    \/ Submit(MaxCalls)
    \/ FetchFails
    \/ FetchOks(TurnBodies)
    \/ ReadFrames
    \/ ReadEnds
    \/ ReadFails
    \/ NewChat
    \/ OpenChat
    \/ RemoveChat
    \/ Reboot

SpecReload == Init /\ [][NextReload]_vars

\* SpecQuota: one turn in a browser whose localStorage may be full when the
\* save effect writes
StoreFull == \E k \in Calls : \E n \in FrameEnds(calls[k].wire) : ReaderReadStoreFull(k, n)

\* the input form exists only while the component is rendered
SubmitRendered == mounted /\ Submit(MaxCalls)

NextQuota ==
    \/ Tick
    \/ SubmitRendered
    \/ FetchFails
    \/ FetchOks(TurnBodies)
    \/ ReadFrames
    \/ ReadEnds
    \/ ReadFails
    \/ StoreFull

SpecQuota == Init /\ [][NextQuota]_vars

\* SpecFrames: turns within one millisecond whose stream is the scripted
\* answer below with any of its frames left out, read one frame at a time
\* until the transport closes: a status, two fragments
\* with a frame that is not JSON and one of unknown type between them, two
\* lists of sources, and done
Master == <<"status", "chunkA", "<html>", "ping", "chunkB", "sources",
            "sourcesB", "done">>

\* the frames of the script m at the positions in S, in order
RECURSIVE Pick(_, _)
Pick(m, S) ==
    IF S = {} THEN <<>>
    ELSE LET i == CHOOSE x \in S : \A y \in S : x <= y
         IN  <<m[i]>> \o Pick(m, S \ {i})

\* the script m with any of its frames left out, at most MaxFrames long
ScriptsOf(m) ==
    {Pick(m, S) : S \in {T \in SUBSET (1..Len(m)) : Cardinality(T) <= MaxFrames}}

Scripts == ScriptsOf(Master)

FetchScripts == \E k \in Calls, resp \in Scripts : FetchOk(k, resp)

\* reader.read() resolves with exactly the next frame
ReadFrame ==
    \E k \in Calls :
        /\ FrameEnds(calls[k].wire) # {}
        /\ ReaderRead(k, CHOOSE n \in FrameEnds(calls[k].wire) :
                            \A m \in FrameEnds(calls[k].wire) : n <= m)

NextFrames ==
    \/ Submit(MaxCalls)
    \/ FetchScripts
    \/ ReadFrame
    \/ ReadEnds

SpecFrames == Init /\ [][NextFrames]_vars

\* SpecOverlap: two submits whose streams overlap: the server goes on
\* sending after done and keeps the connection open, so the second submit is
\* accepted while the first stream is still read
OverlapMaster == <<"chunkA", "done", "chunkB", "sources">>

FetchOverlaps == \E k \in Calls, resp \in ScriptsOf(OverlapMaster) : FetchOk(k, resp)

NextOverlap ==
    \/ Tick
    \/ Submit(MaxTurns)
    \/ FetchOverlaps
    \/ ReadFrame
    \/ ReadEnds

SpecOverlap == Init /\ [][NextOverlap]_vars

\* ------------------------------------------- the StorageService by itself
\* a text of n characters
Text(n) == [i \in 1..n |-> "x"]

\* messages a caller can save: a 50 and a 51 character user message and
\* an assistant message with sources and confidence
StoreMessages ==
    { NewMessage(1, "user", Text(TitleMax), 999),
      NewMessage(2, "user", Text(TitleMax + 1), 1000),
      [NewMessage(3, "assistant", FragA, 61001)
          EXCEPT !.sources = <<SourcesS>>, !.confidence = <<1>>] }

\* the lists a caller can save: up to MaxStoreMsgs different messages
StoreLists ==
    {l \in UNION {[1..n -> StoreMessages] : n \in 0..MaxStoreMsgs} :
        \A i, j \in 1..Len(l) : i # j => l[i] # l[j]}
StoreIds == 1..MaxSessions

\* a caller runs storageService.saveChatHistory(id, msgs)
StoreSave(id, msgs) ==
    /\ lsHistory' = saveChatHistory(lsHistory, id, msgs, now)
    /\ op' = [name |-> "save", id |-> id, msgs |-> msgs,
              had |-> (KeyIdx(lsHistory, id) # 0)]
    /\ UNCHANGED <<messages, isThinking, thinkingStatus, sessionId, chatHistory,
                   error, lsSession, now, nextSession, calls, deleted, reloads, mounted, auth>>

\* a caller runs storageService.deleteSession(id)
StoreDelete(id) ==
    /\ lsHistory' = deleteSession(lsHistory, id)
    /\ op' = [name |-> "delete", id |-> id, msgs |-> <<>>,
              had |-> (KeyIdx(lsHistory, id) # 0)]
    /\ UNCHANGED <<messages, isThinking, thinkingStatus, sessionId, chatHistory,
                   error, lsSession, now, nextSession, calls, deleted, reloads, mounted, auth>>

\* SpecStore: any interleaving of saves and deletes as time passes
NextStore ==
    \/ Tick
    \/ \E id \in StoreIds, msgs \in StoreLists : StoreSave(id, msgs)
    \/ \E id \in StoreIds : StoreDelete(id)

SpecStore == Init /\ [][NextStore]_vars

\* SpecAuth: users sign out and in on one browser between and during
\* turns; the handlers of ChatInterface exist only while it is rendered
SendRendered == mounted /\ Submit(MaxCalls)
NewChatRendered == mounted /\ NewChat
OpenChatRendered == mounted /\ OpenChat
RemoveChatRendered == mounted /\ RemoveChat
SignIn == \E u \in Users : Login(u)

NextAuth ==
    \/ Tick
    \/ SendRendered
    \/ FetchFails
    \/ FetchOks(TurnBodies)
    \/ ReadFrames
    \/ ReadEnds
    \/ NewChatRendered
    \/ OpenChatRendered
    \/ RemoveChatRendered
    \/ Logout
    \/ SignIn

SpecAuth == Init /\ [][NextAuth]_vars

\* SpecLabels: the sidebar labels of sessions saved in the first minutes, as
\* the clock moves on by minutes, hours and days and the list is read again.
\* The clock values are the ends of each label's range, one millisecond
\* around them, and the whole days up to MaxDays.
MaxDays == 8
Durations ==
    {0}
    \cup {b + o : b \in {MsPerMin, 2 * MsPerMin, MsPerHour, 2 * MsPerHour,
                         MsPerDay, 2 * MsPerDay, 7 * MsPerDay},
                  o \in {-1, 0, 1}}
    \cup {d * MsPerDay : d \in 0..MaxDays}

\* time passes until the clock reads t
Elapse(t) ==
    /\ t > now
    /\ now' = t
    /\ UNCHANGED <<messages, isThinking, thinkingStatus, sessionId, chatHistory,
                   error, lsHistory, lsSession, nextSession, calls, deleted, op, reloads, mounted, auth>>

\* session id is saved with one user message when the clock reads id - 1 minutes
SaveEarly ==
    \E id \in StoreIds :
        /\ now = (id - 1) * MsPerMin
        /\ StoreSave(id, <<NewMessage(id, "user", <<"q">>, now)>>)

\* loadChatHistory: setChatHistory(storageService.getChatHistoryList())
ListChats ==
    /\ chatHistory' = getChatHistoryList(lsHistory, now)
    /\ UNCHANGED <<messages, isThinking, thinkingStatus, sessionId,
                   error, lsHistory, lsSession, now, nextSession, calls, deleted, op, reloads, mounted, auth>>

NextLabels ==
    \/ \E t \in Durations : Elapse(t)
    \/ SaveEarly
    \/ ListChats

SpecLabels == Init /\ [][NextLabels]_vars

\* SpecSidebar: the sidebar handlers called with any session id, also one
\* whose record is gone (an entry rendered before the record was removed),
\* between turns whose fetch fails
OpenAny ==
    \E h \in StoreIds :
        /\ LoadChatSession(h)
        /\ op' = [name |-> "open", id |-> h, msgs |-> <<>>,
                  had |-> (KeyIdx(lsHistory, h) # 0)]

NextSidebar ==
    \/ Tick
    \/ Submit(MaxCalls)
    \/ FetchFails
    \/ NewChat
    \/ RemoveChat
    \/ OpenAny

SpecSidebar == Init /\ [][NextSidebar]_vars

TypeOK ==
    /\ now \in 0..MaxNow
    /\ sessionId \in 1..MaxSessions
    /\ lsSession \in 1..MaxSessions
    /\ isThinking \in BOOLEAN
    /\ Len(calls) <= MaxTurns

\* --------------------------------------------------------------- claims
IsPrefix(p, s) == Len(p) <= Len(s) /\ SubSeq(s, 1, Len(p)) = p

\* the text errText occurs in content
Mentions(content, errText) ==
    \E i \in 1..Len(content) : i + Len(errText) - 1 <= Len(content)
                               /\ SubSeq(content, i, i + Len(errText) - 1) = errText

\* the assistant messages of call k in a message list
TurnMsgs(msgs, k) ==
    {i \in 1..Len(msgs) : msgs[i].id = calls[k].assistantMessageId
                          /\ msgs[i].role = "assistant"}

\* the fragments of the chunk frames of a response, concatenated in order
RECURSIVE SentContent(_)
SentContent(resp) ==
    IF resp = <<>> THEN <<>>
    ELSE (IF JsonObject(Head(resp)).type = "chunk"
          THEN JsonObject(Head(resp)).content ELSE <<>>) \o SentContent(Tail(resp))

OnlyChunks(resp) == \A i \in 1..Len(resp) : resp[i] \in {"chunkA", "chunkB"}
NoTerminal(resp) == \A i \in 1..Len(resp) : resp[i] \notin {"done", "error"}

\* the records of the store that hold an assistant message of call k
RecordsOfTurn(k) ==
    {r \in 1..Len(lsHistory) :
        \E i \in 1..Len(lsHistory[r].messages) :
            /\ lsHistory[r].messages[i].id = calls[k].assistantMessageId
            /\ lsHistory[r].messages[i].role = "assistant"}

\* C1: when a stream of chunk frames has been read to its end, however the
\* text was split into reads, the content of the turn's assistant message is
\* the concatenation of the fragments sent, in order.
C1_Orig ==
    \A k \in Calls :
        (calls[k].exit = "eof" /\ calls[k].written # <<>> /\ OnlyChunks(calls[k].written))
        => /\ TurnMsgs(messages, k) # {}
           /\ \A i \in TurnMsgs(messages, k) :
                  messages[i].content = SentContent(calls[k].written)

\* C2: when the first chunk creates the assistant message after a sources
\* event was handled, the message carries those sources.
C2_Orig ==
    [][\A k \in Calls :
          (k \in 1..Len(calls') /\ calls'[k].sources # <<>>
           /\ ~calls[k].messageAdded /\ calls'[k].messageAdded)
          => \E i \in 1..Len(messages') :
                 /\ messages'[i].id = calls[k].assistantMessageId
                 /\ messages'[i].role = "assistant"
                 /\ messages'[i].sources = <<calls'[k].sources>>]_vars

\* C3: once an error event was decoded, the turn has ended and an assistant
\* message of the turn exists whose content keeps the accumulated content as
\* a prefix and reports the failure.
C3_Orig ==
    \A k \in Calls :
        calls[k].caught = ServerErr
        => /\ calls[k].pc = "returned"
           /\ \E i \in TurnMsgs(messages, k) :
                  /\ IsPrefix(calls[k].accumulatedContent, messages[i].content)
                  /\ Mentions(messages[i].content, ServerErr)

\* C4: when a stream that delivered chunks ends without done or error, the
\* assistant message is the chunk content followed by a failure notice, and
\* the session's store record holds that message.
C4_Orig ==
    \A k \in Calls :
        (calls[k].exit = "eof" /\ calls[k].messageAdded /\ NoTerminal(calls[k].written))
        => /\ \E i \in TurnMsgs(messages, k) :
                  /\ IsPrefix(calls[k].accumulatedContent, messages[i].content)
                  /\ Len(messages[i].content) > Len(calls[k].accumulatedContent)
           /\ loadSession(lsHistory, calls[k].openedFor) = <<messages>>

\* C5: when handleSend has returned, an assistant message of the turn exists.
C5_Orig ==
    \A k \in Calls : calls[k].pc = "returned" => TurnMsgs(messages, k) # {}

\* C6: at most one stream is being read at any time.
C6_Orig == Cardinality({k \in Calls : calls[k].pc = "reading"}) <= 1

\* the stream of call k was opened: fetch resolved with a reader
Opened(k) == calls[k].pc # "fetch" /\ calls[k].exit # "fetch"

\* C7: a store record that holds an assistant message produced by a turn's
\* stream is the record of the session that was active when handleSend was
\* called.
C7_Orig ==
    \A k \in Calls :
        Opened(k) => \A r \in RecordsOfTurn(k) : lsHistory[r].id = calls[k].openedFor

\* C8: a session in which the user has not submitted has no in-memory
\* messages, whatever a stream opened in another session delivers.
C8_Orig ==
    (\A k \in Calls : calls[k].openedFor # sessionId /\ Opened(k)) => messages = <<>>

\* C9: while a turn has not reached its terminal event and the user has left
\* the session it was opened in, no store record holds the turn's assistant
\* message.
C9_Orig ==
    \A k \in Calls :
        (calls[k].pc # "returned" /\ ~calls[k].doneSeen /\ calls[k].caught # ServerErr
         /\ sessionId # calls[k].openedFor)
        => RecordsOfTurn(k) = {}

\* C10: a deleteChat of the active session removes its record and leaves the
\* controller on a session id never used before, with no in-memory messages
\* and no store record, and with the stored pointer equal to that id.
C10_DeleteActive ==
    [][\A d \in deleted' \ deleted :
          d.active
          => /\ d.id = sessionId
             /\ KeyIdx(lsHistory', d.id) = 0
             /\ sessionId' # d.id
             /\ sessionId' >= nextSession
             /\ nextSession' > sessionId'
             /\ messages' = <<>>
             /\ KeyIdx(lsHistory', sessionId') = 0
             /\ d.id \notin {chatHistory'[i].id : i \in 1..Len(chatHistory')}
             /\ lsSession' = sessionId'
             /\ lsSession' # d.id]_vars

\* C10 witness: the first session, which held a turn, was deleted while it
\* was active, and the controller is on the fresh empty session
C10_Witness ==
    /\ [id |-> 1, active |-> TRUE] \in deleted
    /\ Len(calls) > 0
    /\ sessionId = 2
    /\ lsSession = 2
    /\ messages = <<>>
    /\ lsHistory = <<>>

\* a step that is a direct call of the StorageService
OpStep == op' # op \/ lsHistory' # lsHistory

StoredIds(hist) == {hist[r].id : r \in 1..Len(hist)}

\* C11: every stored record has at least one message; a save of an empty
\* list leaves the store that deleteSession leaves, with no record for the
\* id, and loadSession returns null for it.
C11_EmptySaveDeletes ==
    [][/\ \A r \in 1..Len(lsHistory') : Len(lsHistory'[r].messages) >= 1
       /\ (OpStep /\ op'.name = "save" /\ op'.msgs = <<>>)
          => /\ lsHistory' = deleteSession(lsHistory, op'.id)
             /\ op'.id \notin StoredIds(lsHistory')
             /\ loadSession(lsHistory', op'.id) = <<>>]_vars

\* C11 witness: an empty list was saved for an id that had a record, and
\* another record is still stored
C11_Witness ==
    /\ op.name = "save" /\ op.msgs = <<>> /\ op.had
    /\ op.id \notin StoredIds(lsHistory)
    /\ lsHistory # <<>>

\* C12: after a save of a non-empty list, loadSession of the id returns the
\* list saved: same length and order, and every message equal in id, role,
\* content, timestamp, sources and confidence.
C12_RoundTrip ==
    (op.name = "save" /\ op.msgs # <<>>)
    => /\ loadSession(lsHistory, op.id) # <<>>
       /\ LET l == loadSession(lsHistory, op.id)[1]
          IN  /\ Len(l) = Len(op.msgs)
              /\ \A i \in 1..Len(l) :
                    /\ l[i].id = op.msgs[i].id
                    /\ l[i].role = op.msgs[i].role
                    /\ l[i].content = op.msgs[i].content
                    /\ l[i].timestamp = op.msgs[i].timestamp
                    /\ l[i].sources = op.msgs[i].sources
                    /\ l[i].confidence = op.msgs[i].confidence

\* C12 witness: a list of two messages was saved, one of them with sources,
\* confidence and a timestamp beyond one minute
C12_Witness ==
    /\ op.name = "save" /\ Len(op.msgs) = 2
    /\ \E i \in 1..2 : /\ op.msgs[i].sources # <<>>
                       /\ op.msgs[i].confidence # <<>>
                       /\ op.msgs[i].timestamp > MsPerMin
    /\ loadSession(lsHistory, op.id) # <<>>

\* the stored last-activity instant of session id
LastActivity(id) == parseDate(lsHistory[KeyIdx(lsHistory, id)].timestamp)

\* C13: getChatHistoryList has one entry per stored session, ordered by the
\* stored last-activity instants, latest first.
C13_Orig ==
    LET l == getChatHistoryList(lsHistory, now)
    IN  /\ Len(l) = Len(lsHistory)
        /\ {l[i].id : i \in 1..Len(l)} = StoredIds(lsHistory)
        /\ \A i, j \in 1..Len(l) :
              i < j => LastActivity(l[i].id) >= LastActivity(l[j].id)

\* C14: a deleteSession of an id without a record leaves the store as it
\* is, and a second deleteSession of the same id changes nothing.
C14_DeleteIdempotent ==
    [][(OpStep /\ op'.name = "delete")
       => /\ op'.id \notin StoredIds(lsHistory) => lsHistory' = lsHistory
          /\ op'.id \notin StoredIds(lsHistory')
          /\ \A b \in StoredIds(lsHistory) \ {op'.id} :
                /\ b \in StoredIds(lsHistory')
                /\ lsHistory'[KeyIdx(lsHistory', b)] = lsHistory[KeyIdx(lsHistory, b)]
          /\ deleteSession(lsHistory', op'.id) = lsHistory']_vars

\* C14 witness: deleteSession ran on an id without a record while another
\* record was stored
C14_Witness ==
    /\ op.name = "delete" /\ ~op.had
    /\ lsHistory # <<>>

\* C15: the title of every stored record is the content of its first user
\* message when that has at most 50 characters, its first 50 characters and
\* '...' when it is longer, and 'New Chat' when there is no user message.
C15_Title ==
    \A r \in 1..Len(lsHistory) :
        LET m == lsHistory[r].messages
            title == lsHistory[r].title
            U == {i \in 1..Len(m) : m[i].role = "user"}
        IN  IF U = {} THEN title = <<"New Chat">>
            ELSE \E i \in U :
                    /\ \A j \in U : i <= j
                    /\ Len(m[i].content) <= 50 => title = m[i].content
                    /\ Len(m[i].content) > 50
                       => title = SubSeq(m[i].content, 1, 50) \o <<"...">>

\* C15 witness: a record whose first user message comes second and has 51
\* characters, next to a record without a user message
C15_Witness ==
    /\ \E r \in 1..Len(lsHistory) :
          /\ Len(lsHistory[r].messages) = 2
          /\ lsHistory[r].messages[1].role = "assistant"
          /\ Len(lsHistory[r].messages[2].content) = 51
          /\ Len(lsHistory[r].title) = 51
    /\ \E r \in 1..Len(lsHistory) : lsHistory[r].title = <<"New Chat">>

\* C20: once handleSend has handled a done event, no later read of the same
\* stream changes the message list: no content grows, no sources are set and
\* no message is added.
C20_Orig ==
    [][\A k \in Calls :
          (calls[k].doneSeen /\ calls[k].pc = "reading" /\ calls'[k].pc = "reading")
          => messages' = messages]_vars

\* call k returns in this step because its stream could not be opened
FailsToOpen(k) == calls[k].pc = "fetch" /\ calls'[k].exit = "fetch"

\* C18: when the stream of a turn cannot be opened, the step appends exactly
\* one assistant message that reports the error, directly after the turn's
\* user message, sets the error banner, and no response text was opened.
C18_Orig ==
    [][\A k \in Calls :
          FailsToOpen(k)
          => /\ error' # <<>>
             /\ Len(messages') = Len(messages) + 1
             /\ SubSeq(messages', 1, Len(messages)) = messages
             /\ LET m == messages'[Len(messages')]
                IN  /\ m.role = "assistant"
                    /\ m.id = calls[k].assistantMessageId
                    /\ Mentions(m.content, error')
             /\ Len(messages) >= 1
             /\ messages[Len(messages)].role = "user"
             /\ messages[Len(messages)].id = calls[k].assistantMessageId - 1
             /\ calls'[k].written = <<>> /\ calls'[k].wire = <<>>]_vars

\* C17: every accepted submit leads to a state in which its handleSend has
\* returned and the controller is idle: isThinking false and the status
\* text cleared, whether the turn ended by the stream's end, a failed fetch,
\* a failed read or an error event.
C17_ReturnsToIdle ==
    \A k \in 1..MaxCalls :
        (Len(calls) >= k /\ calls[k].pc # "returned")
        ~> (/\ Len(calls) >= k /\ calls[k].pc = "returned"
            /\ ~isThinking /\ thinkingStatus = <<>>)

\* C17 witness: a turn whose stream sent a status and then failed in a read
\* has returned, and the controller is idle
C17_Witness ==
    /\ calls # <<>>
    /\ calls[1].pc = "returned" /\ calls[1].exit = "read"
    /\ calls[1].written # <<>> /\ calls[1].written[1] = "status"
    /\ ~isThinking /\ thinkingStatus = <<>>

\* what loadSession returns for id, as a list: empty when it returns null
LoadedFor(hist, id) ==
    IF loadSession(hist, id) = <<>> THEN <<>> ELSE loadSession(hist, id)[1]

\* C19: the stored session pointer always equals the in-memory session id,
\* and a reload starts on the session id that was active before it, with the
\* messages loadSession returns for it, or none when it has no record.
C19_PointerFollows ==
    [][/\ lsSession = sessionId
       /\ lsSession' = sessionId'
       /\ reloads' # reloads
          => /\ sessionId' = sessionId
             /\ messages' = LoadedFor(lsHistory, sessionId)]_vars

\* C19 witness: the page was loaded again on a session opened by
\* startNewChat, and shows the message stored for it
C19_Witness ==
    /\ reloads > 0
    /\ sessionId # 1 /\ lsSession = sessionId
    /\ messages # <<>>
    /\ messages = LoadedFor(lsHistory, sessionId)

\* C16: when the write of the store failed on the read that delivered the
\* turn's answer and its done event, the component is still rendered, the
\* message list holds the turn's user and assistant messages, the controller
\* is idle, and a notice is shown to the user.
C16_Orig ==
    \A k \in Calls :
        (calls[k].exit = "quota" /\ calls[k].doneSeen)
        => /\ mounted
           /\ TurnMsgs(messages, k) # {}
           /\ \E i \in 1..Len(messages) :
                 /\ messages[i].role = "user"
                 /\ messages[i].id = calls[k].assistantMessageId - 1
           /\ ~isThinking /\ thinkingStatus = <<>>
           /\ error # <<>>

\* C21: whenever isThinking is false, no handleSend call is in its read loop.
C21_Orig ==
    ~isThinking => \A k \in Calls : calls[k].pc # "reading"

\* C28: no two messages of the in-memory list, and no two messages of one
\* store record, have the same id.
C28_Orig ==
    /\ \A i, j \in 1..Len(messages) : i # j => messages[i].id # messages[j].id
    /\ \A r \in 1..Len(lsHistory) :
          \A i, j \in 1..Len(lsHistory[r].messages) :
              i # j => lsHistory[r].messages[i].id # lsHistory[r].messages[j].id

\* C29: a step that leaves the stored messages of a session as they are
\* leaves its stored last-activity timestamp and its position in the session
\* index as they are.
C29_Orig ==
    [][\A r \in 1..Len(lsHistory), q \in 1..Len(lsHistory') :
          (lsHistory[r].id = lsHistory'[q].id
           /\ lsHistory[r].messages = lsHistory'[q].messages)
          => /\ lsHistory'[q].timestamp = lsHistory[r].timestamp
             /\ (Len(lsHistory') = Len(lsHistory) => q = r)]_vars

\* C30: the store has a record for the active session exactly when the
\* in-memory list is not empty, and then loadSession returns that list.
C30_RecordFollowsList ==
    /\ (sessionId \in StoredIds(lsHistory)) <=> (messages # <<>>)
    /\ LoadedFor(lsHistory, sessionId) = messages

\* C30 witness: a session opened by startNewChat got its record with its
\* first message, the user's
C30_Witness ==
    /\ sessionId # 1
    /\ Len(messages) = 1 /\ messages[1].role = "user"
    /\ StoredIds(lsHistory) = {sessionId}

\* C24: over its whole life a handleSend call appends at most one message
\* besides the user's: one assistant message per accepted submit.
C24_OneAssistantMessage ==
    \A k \in Calls :
        /\ calls[k].produced <= 1
        /\ calls[k].produced = 0 => ~calls[k].messageAdded

\* C24 witness: a turn that got a chunk, lost its session to startNewChat and
\* then failed in a read has returned with one message appended
C24_Witness ==
    \E k \in Calls :
        /\ calls[k].pc = "returned" /\ calls[k].exit = "read"
        /\ calls[k].messageAdded /\ calls[k].produced = 1
        /\ calls[k].openedFor # sessionId

\* call k reads in this step, and the text the read delivers
Reads(k) ==
    /\ calls[k].pc = "reading"
    /\ Len(calls'[k].wire) < Len(calls[k].wire)
Consumed(k) == SubSeq(calls[k].wire, 1, Len(calls[k].wire) - Len(calls'[k].wire))

\* the fragments of the chunk frames of a script, concatenated in order
RECURSIVE Fragments(_)
Fragments(resp) ==
    IF resp = <<>> THEN <<>>
    ELSE (IF Head(resp) = "chunkA" THEN FragA
          ELSE IF Head(resp) = "chunkB" THEN FragB ELSE <<>>)
         \o Fragments(Tail(resp))

\* the script status, chunk, chunk, sources, done
Example == <<"status", "chunkA", "chunkB", "sources", "done">>

\* C22: a status frame changes the status text and no message; a sources
\* frame read after the first chunk sets the sources of the turn's assistant
\* message and changes no content, no other field and no other message; and
\* the stream status, chunk, chunk, sources, done read to its end leaves one
\* assistant message with both fragments and the sources sent.
C22_FrameEffects ==
    [][/\ \A k \in Calls :
            /\ (Reads(k) /\ Consumed(k) = Frame("status"))
               => /\ messages' = messages
                  /\ thinkingStatus' = StatusMsg
            /\ \A b \in {"sources", "sourcesB"} :
                  (Reads(k) /\ Consumed(k) = Frame(b) /\ calls[k].messageAdded)
                  => /\ Len(messages') = Len(messages)
                     /\ TurnMsgs(messages, k) # {}
                     /\ \A i \in 1..Len(messages) :
                           IF i \in TurnMsgs(messages, k)
                           THEN messages'[i] =
                                  [messages[i] EXCEPT !.sources = <<JsonObject(b).sources>>]
                           ELSE messages'[i] = messages[i]
       /\ (Len(calls') = 1 /\ calls'[1].written = Example /\ calls'[1].pc # "fetch"
           /\ calls'[1].wire = <<>>)
          => /\ Len(messages') = 2
             /\ messages'[2].role = "assistant"
             /\ messages'[2].content = FragA \o FragB
             /\ messages'[2].sources = <<SourcesS>>]_vars

\* C22 witness: the stream status, chunk, chunk, sources, done was read to
\* its end
C22_Witness ==
    /\ Len(calls) = 1 /\ calls[1].written = Example
    /\ calls[1].pc = "returned" /\ calls[1].exit = "eof"
    /\ messages[2].content = FragA \o FragB
    /\ messages[2].sources = <<SourcesS>>
    /\ thinkingStatus = <<>>

\* C23: a frame whose payload is not JSON or has an unknown type changes no
\* message, leaves the read loop running and the turn's state as it is, and
\* the fragments of all chunk frames of the stream, before and after it,
\* make up the content of the assistant message.
C23_MalformedSkipped ==
    [][/\ \A k \in Calls : \A b \in {"<html>", "ping"} :
            (Reads(k) /\ Consumed(k) = Frame(b))
            => /\ messages' = messages
               /\ calls'[k].pc = "reading"
               /\ calls'[k].accumulatedContent = calls[k].accumulatedContent
               /\ calls'[k].messageAdded = calls[k].messageAdded
               /\ isThinking' = isThinking
               /\ thinkingStatus' = thinkingStatus
               /\ error' = error
       /\ (Len(calls') = 1 /\ calls'[1].pc # "fetch" /\ calls'[1].wire = <<>>)
          => IF Fragments(calls'[1].written) = <<>>
             THEN Len(messages') = 1
             ELSE /\ Len(messages') = 2
                  /\ messages'[2].content = Fragments(calls'[1].written)]_vars

\* C23 witness: a stream with a frame that is not JSON and a frame of
\* unknown type between two chunk frames was read to its end
C23_Witness ==
    /\ Len(calls) = 1
    /\ calls[1].written = <<"chunkA", "<html>", "ping", "chunkB">>
    /\ calls[1].pc = "returned"
    /\ messages[2].content = FragA \o FragB

\* C25: once an assistant message has sources, no step changes them.
C25_Orig ==
    [][\A i \in 1..Len(messages) :
          (messages[i].role = "assistant" /\ messages[i].sources # <<>>
           /\ i <= Len(messages') /\ messages'[i].id = messages[i].id)
          => messages'[i].sources = messages[i].sources]_vars

\* C26: no step replaces the content of an assistant message by a text that
\* does not start with the content it had.
C26_Orig ==
    [][\A i \in 1..Len(messages) :
          (messages[i].role = "assistant" /\ i <= Len(messages')
           /\ messages'[i].id = messages[i].id)
          => IsPrefix(messages[i].content, messages'[i].content)]_vars

\* C27: no message with role user, in memory or in a store record, has
\* sources or confidence.
C27_Orig ==
    /\ \A i \in 1..Len(messages) :
          messages[i].role = "user"
          => messages[i].sources = <<>> /\ messages[i].confidence = <<>>
    /\ \A r \in 1..Len(lsHistory) : \A i \in 1..Len(lsHistory[r].messages) :
          lsHistory[r].messages[i].role = "user"
          => /\ LoadedMsg(lsHistory[r].messages[i]).sources = <<>>
             /\ LoadedMsg(lsHistory[r].messages[i]).confidence = <<>>

\* the ids and titles of a list of records or sidebar entries
IdsAndTitles(l) == {<<l[i].id, l[i].title>> : i \in 1..Len(l)}

\* C31: the displayed session index has one entry for each record of the
\* store, with the record's id and title, after every step.
C31_IndexFresh ==
    /\ Len(chatHistory) = Len(lsHistory)
    /\ IdsAndTitles(chatHistory) = IdsAndTitles(lsHistory)

\* C31 witness: two sessions are stored and listed, the second one saved
\* by a message sent after the page was loaded again
C31_Witness ==
    /\ Len(chatHistory) = 2
    /\ IdsAndTitles(chatHistory) = IdsAndTitles(lsHistory)
    /\ messages # <<>>
    /\ reloads > 0

\* the records of a store other than the one of id
Others(hist, id) == {hist[r] : r \in {q \in 1..Len(hist) : hist[q].id # id}}

\* C32: a saveChatHistory or deleteSession of one session id leaves the
\* records of all other ids as they are, and adds none.
C32_OtherRecordsKept ==
    [][(OpStep /\ op'.name \in {"save", "delete"})
       => Others(lsHistory', op'.id) = Others(lsHistory, op'.id)]_vars

\* C32 witness: a list was saved for one id while another id had a record,
\* which is still stored
C32_Witness ==
    /\ op.name = "save" /\ op.msgs # <<>> /\ op.had
    /\ Others(lsHistory, op.id) # {}
    /\ Len(lsHistory) = 2

\* C34: a session id deleted with deleteChat has no record in the store
\* from then on.
C34_DeletedStaysDeleted ==
    \A d \in deleted : d.id \notin StoredIds(lsHistory)

\* C34 witness: the active session was deleted while its stream was open,
\* the stream then delivered a message, and the page was loaded again
C34_Witness ==
    /\ \E d \in deleted : d.active /\ \E k \in Calls : calls[k].openedFor = d.id
                                                      /\ calls[k].produced = 1
    /\ reloads > 0
    /\ lsHistory # <<>>

\* C36: a deleteChat of a session other than the active one removes that
\* record and no other, and leaves the active session id, the stored
\* pointer and the in-memory messages as they are.
C36_DeleteOther ==
    [][\A d \in deleted' \ deleted :
          ~d.active
          => /\ sessionId' = sessionId
             /\ lsSession' = lsSession
             /\ messages' = messages
             /\ d.id \notin StoredIds(lsHistory')
             /\ Others(lsHistory', d.id) = Others(lsHistory, d.id)
             /\ LoadedFor(lsHistory', sessionId) = LoadedFor(lsHistory, sessionId)]_vars

\* C36 witness: another session was deleted while the active one has
\* messages and its record
C36_Witness ==
    /\ \E d \in deleted : ~d.active /\ d.id # sessionId
    /\ messages # <<>>
    /\ StoredIds(lsHistory) = {sessionId}

\* C35: loadChatSession of a session id that has no record changes nothing:
\* the active session id, the in-memory messages, the stored pointer, the
\* store and the sidebar stay as they are.
C35_OpenMissingNoOp ==
    [][(op' # op /\ op'.name = "open" /\ ~op'.had)
       => /\ sessionId' = sessionId
          /\ messages' = messages
          /\ lsSession' = lsSession
          /\ lsHistory' = lsHistory
          /\ chatHistory' = chatHistory]_vars

\* C35 witness: loadChatSession was called for another session id without a
\* record while the active session has messages and its record
C35_Witness ==
    /\ op.name = "open" /\ ~op.had
    /\ op.id # sessionId
    /\ messages # <<>>
    /\ KeyIdx(lsHistory, sessionId) # 0
    /\ lsSession = sessionId

\* the label classes in their order, and the class of an elapsed time by
\* the boundaries of 1 minute, 60 minutes, 24 hours, 2 days and 7 days
ClassOf(l) ==
    CASE l.text = "Just now" -> 0
      [] l.text \in {"min ago", "mins ago"} -> 1
      [] l.text \in {"hour ago", "hours ago"} -> 2
      [] l.text = "Yesterday" -> 3
      [] l.text = "days ago" -> 4
      [] l.text = "date" -> 5
      [] OTHER -> -1
ClassAt(e) ==
    IF e < 60000 THEN 0
    ELSE IF e < 3600000 THEN 1
    ELSE IF e < 86400000 THEN 2
    ELSE IF e < 172800000 THEN 3
    ELSE IF e < 604800000 THEN 4
    ELSE 5

\* label a is not later than label b: an earlier class, or the same class
\* with a count that is not larger (for dates: a day that is not earlier)
NotLater(a, b) ==
    \/ ClassOf(a) < ClassOf(b)
    \/ /\ ClassOf(a) = ClassOf(b)
       /\ IF a.text = "date" THEN a.n >= b.n ELSE a.n <= b.n

\* the label of stored record i at the current clock value, and its elapsed time
LabelNow(i) == formatTimestamp(lsHistory[i].timestamp, now)
ElapsedNow(i) == now - parseDate(lsHistory[i].timestamp)

\* C33: formatTimestamp returns a label for every non-negative elapsed
\* time, the label's class is the one the boundaries 1 minute, 60 minutes,
\* 24 hours, 2 days and 7 days give, and a label for a shorter elapsed time
\* is never later than one for a longer elapsed time: neither between two
\* sessions listed together nor between a listed label and the one the same
\* session gets when listed again.
C33_LabelsMonotonic ==
    /\ \A i \in 1..Len(lsHistory) :
          /\ ElapsedNow(i) >= 0
          /\ ClassOf(LabelNow(i)) = ClassAt(ElapsedNow(i))
    /\ \A i, j \in 1..Len(lsHistory) :
          ElapsedNow(i) <= ElapsedNow(j) => NotLater(LabelNow(i), LabelNow(j))
    /\ \A k \in 1..Len(chatHistory) : \A i \in 1..Len(lsHistory) :
          /\ ClassOf(chatHistory[k].timestamp) >= 0
          /\ chatHistory[k].id = lsHistory[i].id
             => NotLater(chatHistory[k].timestamp, LabelNow(i))

\* C33 witness: the list read after two days shows one session as
\* "2 days ago" and the session saved a minute later as "Yesterday"
C33_Witness ==
    /\ now = 2 * MsPerDay
    /\ Len(chatHistory) = 2
    /\ \E k \in 1..2 : chatHistory[k].timestamp = [n |-> 2, text |-> "days ago"]
    /\ \E k \in 1..2 : chatHistory[k].timestamp = [n |-> 1, text |-> "Yesterday"]

\* what the store holds for loading: the stored ids with their messages
Loadable(hist) == {<<id, LoadedFor(hist, id)>> : id \in StoredIds(hist)}

\* C37: logout clears the token, the stored user, the Authorization header
\* and the auth state and leaves the session collection and the session
\* pointer as they are; while nobody is signed in, and when a user signs in
\* again, the stored sessions keep their ids and messages, and after the
\* login of any user the sidebar lists exactly them and the session of the
\* pointer is the active one.
C37_LogoutKeepsSessions ==
    [][/\ (auth.isAuthenticated /\ ~auth'.isAuthenticated)
          => /\ auth' = [lsToken |-> 0, lsUser |-> 0, header |-> 0, user |-> 0,
                         token |-> 0, isAuthenticated |-> FALSE]
             /\ lsHistory' = lsHistory
             /\ lsSession' = lsSession
       /\ ~auth.isAuthenticated
          => /\ Loadable(lsHistory') = Loadable(lsHistory)
             /\ lsSession' = lsSession
       /\ (~auth.isAuthenticated /\ auth'.isAuthenticated)
          => /\ {chatHistory'[i].id : i \in 1..Len(chatHistory')} = StoredIds(lsHistory)
             /\ sessionId' = lsSession
             /\ messages' = LoadedFor(lsHistory, lsSession)]_vars

\* C37 witness: user 2 is signed in after user 1 signed out during a turn,
\* and sees the two sessions user 1 saved, the active one with its messages
C37_Witness ==
    /\ auth = LoggedIn(2)
    /\ mounted
    /\ \E k \in Calls : calls[k].exit = "logout"
    /\ Len(chatHistory) = 2
    /\ messages # <<>>
    /\ StoredIds(lsHistory) = {1, 2}

====
